---------------------------- MODULE Spec2Model ----------------------------
(***************************************************************************)
(* Energy units, fuels, fuel blends and energy providers of                *)
(* src/src/h_advanced_traits.rs, and the employee builder of               *)
(* src/src/m_builder.rs.                                                   *)
(*                                                                         *)
(* u32 values are naturals.  The arithmetic of the source is reproduced    *)
(* with its width: a u32 product that does not fit panics when the build   *)
(* has overflow checks (the test profile) and wraps modulo 2^32 when it    *)
(* has not.  f32 values are reproduced bit for bit as a 24-bit mantissa    *)
(* and a binary exponent, every operation rounding to nearest, ties to     *)
(* even, as IEEE 754 single precision does.                                *)
(***************************************************************************)
EXTENDS Integers, Sequences, FiniteSets, TLC

VARIABLES
    overflow_checks,  \* the build panics on integer overflow (else it wraps)
    DECAY,            \* InternalCombustion's const parameter
    init_efficiency,  \* the argument InternalCombustion::new was given
    efficiency,       \* InternalCombustion.efficiency
    call_count,       \* InternalCombustion.call_count
    used,             \* the efficiency each provide_energy call applied
    aborted,          \* a call on the engine panicked
    others,           \* for each call of a provided method made on the
                      \* engine, the count of provide_energy calls before it
    builder,          \* the EmployeeBuilder in hand
    sets,             \* the setter calls made on it, in order
    call              \* the last call made and what it returned

vars == <<overflow_checks, DECAY, init_efficiency, efficiency, call_count,
          used, aborted, others, builder, sets, call>>

(***************************************************************************)
(* Results of operations that can panic.                                   *)
(***************************************************************************)
Ok(x) == [ok |-> TRUE, v |-> x]

Panic == [ok |-> FALSE, v |-> <<0, 0>>]

(***************************************************************************)
(* u32 arithmetic.  A u32 is the pair <<hi, lo>> of its 16-bit halves, so  *)
(* that every value up to u32::MAX is represented and no intermediate      *)
(* value of the model exceeds 2^31 - 1.                                    *)
(***************************************************************************)
\* the u32 of a natural n < 2^31
U32(n) == <<n \div 65536, n % 65536>>

U32Max == <<65535, 65535>>

\* the 32-bit product of two 16-bit halves, as <<hi, lo>>
Mul16(a, b) ==
    LET p0 == a * (b % 256)
        p1 == a * (b \div 256)
        lo == p0 + (p1 % 256) * 256
    IN  <<(lo \div 65536) + (p1 \div 256), lo % 65536>>

\* x * y > u32::MAX
MulOverflows(x, y) ==
    LET ll == Mul16(x[2], y[2])
        hl == Mul16(x[1], y[2])
        lh == Mul16(x[2], y[1])
        hh == Mul16(x[1], y[1])
        mid == ll[1] + hl[2] + lh[2]
    IN  (mid \div 65536) + hl[1] + lh[1] + hh[1] + hh[2] > 0

\* (x * y) mod 2^32
WrappingMul(x, y) ==
    LET ll == Mul16(x[2], y[2])
        hl == Mul16(x[1], y[2])
        lh == Mul16(x[2], y[1])
        mid == ll[1] + hl[2] + lh[2]
    IN  <<mid % 65536, ll[2]>>

\* x / d, truncating, for a divisor 0 < d < 2^15
DivU32(x, d) ==
    LET t == (x[1] % d) * 65536 + x[2]
    IN  <<x[1] \div d, t \div d>>

\* x % d for a divisor 0 < d < 2^15
RemU32(x, d) == ((x[1] % d) * 65536 + x[2]) % d

\* x + y for a sum that fits (the densities added are at most 2 * 1000)
AddU32(x, y) ==
    LET lo == x[2] + y[2]
    IN  <<(x[1] + y[1] + (lo \div 65536)) % 65536, lo % 65536>>

(***************************************************************************)
(* f32 arithmetic on non-negative finite values: [m, e] is m * 2^e with    *)
(* m = 0 or 2^23 <= m < 2^24.                                              *)
(***************************************************************************)
F32Zero == [m |-> 0, e |-> 0]

\* number of bits of n > 0
RECURSIVE BitLen(_)
BitLen(n) == IF n = 0 THEN 0 ELSE 1 + BitLen(n \div 2)

\* n * 2^e rounded to the nearest f32, ties to even (n < 2^31)
F32Normalize(n, e) ==
    IF n = 0 THEN F32Zero
    ELSE LET len == BitLen(n)
         IN  IF len <= 24
             THEN [m |-> n * 2^(24 - len), e |-> e - (24 - len)]
             ELSE LET k    == len - 24
                      q    == n \div 2^k
                      r    == n % 2^k
                      half == 2^(k - 1)
                      up   == r > half \/ (r = half /\ q % 2 = 1)
                      m1   == IF up THEN q + 1 ELSE q
                  IN  IF m1 = 2^24
                      THEN [m |-> 2^23, e |-> e + k + 1]
                      ELSE [m |-> m1, e |-> e + k]

\* `x as f32` for a u32 x: the low bits of a value of 2^31 or more are kept
\* as one sticky bit below the rounding position
F32FromU32(x) ==
    IF x[1] < 32768 THEN F32Normalize(x[1] * 65536 + x[2], 0)
    ELSE LET sticky == IF x[2] % 4 # 0 THEN 1 ELSE 0
         IN  F32Normalize(2 * (x[1] * 16384 + (x[2] \div 4)) + sticky, 1)

\* `x as f32` for a u8 x
F32FromU8(x) == F32Normalize(x, 0)

\* the bits of rem / d after the binary point, k of them, appended to q
RECURSIVE DivBits(_, _, _, _)
DivBits(rem, d, q, k) ==
    IF k = 0 THEN <<q, rem>>
    ELSE IF 2 * rem >= d
         THEN DivBits(2 * rem - d, d, 2 * q + 1, k - 1)
         ELSE DivBits(2 * rem, d, 2 * q, k - 1)

\* a / b, b # 0
F32Div(a, b) ==
    IF a.m = 0 THEN F32Zero
    ELSE LET qr == DivBits(a.m % b.m, b.m, a.m \div b.m, 26)
             sticky == IF qr[2] # 0 THEN 1 ELSE 0
         IN  F32Normalize(2 * qr[1] + sticky, a.e - b.e - 27)

\* a * b: the exact 48-bit product of the mantissas, by 12-bit limbs
F32Mul(a, b) ==
    IF a.m = 0 \/ b.m = 0 THEN F32Zero
    ELSE LET ah  == a.m \div 4096
             al  == a.m % 4096
             bh  == b.m \div 4096
             bl  == b.m % 4096
             mid == ah * bl + al * bh
             low == (mid % 4096) * 4096 + al * bl
             L   == low % 2^24
             H   == ah * bh + (mid \div 4096) + (low \div 2^24)
             sticky == IF L % 2^22 # 0 THEN 1 ELSE 0
         IN  F32Normalize(2 * (4 * H + (L \div 2^22)) + sticky, a.e + b.e + 21)

\* a + b
F32Add(a, b) ==
    IF a.m = 0 THEN b
    ELSE IF b.m = 0 THEN a
    ELSE LET hi == IF a.e >= b.e THEN a ELSE b
             lo == IF a.e >= b.e THEN b ELSE a
             s  == hi.e - lo.e
             n2 == lo.m * 8
             shifted == IF s >= 27 THEN 0 ELSE n2 \div 2^s
             sticky  == IF s >= 27 THEN 1
                        ELSE IF n2 % 2^s # 0 THEN 1 ELSE 0
         IN  F32Normalize(2 * (hi.m * 8 + shifted) + sticky, hi.e - 4)

\* a - b, for a >= b
F32Sub(a, b) ==
    IF b.m = 0 THEN a
    ELSE LET s  == a.e - b.e
             n2 == b.m * 8
             shifted == IF s >= 27 THEN 0 ELSE n2 \div 2^s
             sticky  == IF s >= 27 THEN 1
                        ELSE IF n2 % 2^s # 0 THEN 1 ELSE 0
         IN  IF sticky = 1
             THEN F32Normalize(2 * (a.m * 8 - shifted - 1) + 1, a.e - 4)
             ELSE F32Normalize(2 * (a.m * 8 - shifted), a.e - 4)

\* f32::round: to the nearest integer, halves away from zero
F32RoundHalfAway(a) ==
    IF a.m = 0 \/ a.e >= 0 THEN a
    ELSE LET k == 0 - a.e
         IN  IF k > 24 THEN F32Zero
             ELSE LET q == a.m \div 2^k
                      r == a.m % 2^k
                  IN  F32Normalize(IF 2 * r >= 2^k THEN q + 1 ELSE q, 0)

\* `a as u32`: the fraction is dropped, a value above u32::MAX saturates
F32ToU32(a) ==
    IF a.m = 0 THEN U32(0)
    ELSE IF a.e >= 9 THEN U32Max
    ELSE IF a.e >= 0
         THEN <<a.m \div 2^(16 - a.e), (a.m % 2^(16 - a.e)) * 2^(a.e)>>
    ELSE IF 0 - a.e >= 24 THEN U32(0)
    ELSE U32(a.m \div 2^(0 - a.e))

\* x * y as the build computes it
MulU32(x, y) ==
    IF MulOverflows(x, y) /\ overflow_checks THEN Panic
    ELSE Ok(WrappingMul(x, y))

Min(a, b) == IF a <= b THEN a ELSE b

(***************************************************************************)
(* Units: Joule and Calorie wrap a u32, BTU is a u32.                      *)
(***************************************************************************)
From_Joule_for_BTU(j) == DivU32(j, 1055)

From_BTU_for_Joule(b) == MulU32(b, U32(1055))

From_Calorie_for_BTU(c) == DivU32(c, 251)

From_BTU_for_Calorie(b) == MulU32(b, U32(251))

(***************************************************************************)
(* Fuels.  A fuel is a type: a natural fuel, or a blend of two fuels.      *)
(***************************************************************************)
Diesel == [kind |-> "Diesel"]

LithiumBattery == [kind |-> "LithiumBattery"]

Uranium == [kind |-> "Uranium"]

Mixed(F1, F2) == [kind |-> "Mixed", F1 |-> F1, F2 |-> F2]

CustomMixed(C, F1, F2) == [kind |-> "CustomMixed", C |-> C, F1 |-> F1, F2 |-> F2]

\* Fuel::Output
Output(F) ==
    CASE F.kind = "Diesel" -> "Joule"
      [] F.kind = "LithiumBattery" -> "Calorie"
      [] F.kind = "Uranium" -> "Joule"
      [] F.kind = "Mixed" -> "BTU"
      [] F.kind = "CustomMixed" -> "BTU"

\* Into<BTU> for a value of the unit
Into_BTU(unit, x) ==
    CASE unit = "Joule" -> From_Joule_for_BTU(x)
      [] unit = "Calorie" -> From_Calorie_for_BTU(x)
      [] unit = "BTU" -> x

\* From<BTU> for the unit
From_BTU(unit, b) ==
    CASE unit = "Joule" -> From_BTU_for_Joule(b)
      [] unit = "Calorie" -> From_BTU_for_Calorie(b)
      [] unit = "BTU" -> Ok(b)

\* Mixed::energy_density as `energy_density1 + energy_density2 / 2`
Mixed_energy_density_unparenthesized(energy_density1, energy_density2) ==
    AddU32(energy_density1, DivU32(energy_density2, 2))

\* Mixed::energy_density, of the two densities in BTU
Mixed_energy_density(energy_density1, energy_density2) ==
    DivU32(AddU32(energy_density1, energy_density2), 2)

\* CustomMixed::energy_density with the sum rounded before the cast
CustomMixed_energy_density_rounded(C, d1, d2) ==
    LET ratio == F32Div(F32FromU8(C), F32FromU8(100))
        inverse_ratio == F32Sub(F32FromU8(1), ratio)
        energy_density1 == F32Mul(F32FromU32(d1), ratio)
        energy_density2 == F32Mul(F32FromU32(d2), inverse_ratio)
    IN  F32ToU32(F32RoundHalfAway(F32Add(energy_density1, energy_density2)))

\* CustomMixed::energy_density, of the two densities in BTU
CustomMixed_energy_density(C, d1, d2) ==
    LET ratio == F32Div(F32FromU8(C), F32FromU8(100))
        inverse_ratio == F32Sub(F32FromU8(1), ratio)
        energy_density1 == F32Mul(F32FromU32(d1), ratio)
        energy_density2 == F32Mul(F32FromU32(d2), inverse_ratio)
    IN  F32ToU32(F32Add(energy_density1, energy_density2))

\* Fuel::energy_density, in the fuel's own unit
RECURSIVE energy_density(_)
energy_density(F) ==
    CASE F.kind = "Diesel" -> From_BTU_for_Joule(U32(100))
      [] F.kind = "LithiumBattery" -> From_BTU_for_Calorie(U32(200))
      [] F.kind = "Uranium" -> From_BTU_for_Joule(U32(1000))
      [] F.kind = "Mixed" ->
            LET r1 == energy_density(F.F1)
                r2 == energy_density(F.F2)
            IN  IF ~r1.ok \/ ~r2.ok THEN Panic
                ELSE Ok(Mixed_energy_density(Into_BTU(Output(F.F1), r1.v),
                                             Into_BTU(Output(F.F2), r2.v)))
      [] F.kind = "CustomMixed" ->
            IF F.C > 100 THEN Panic
            ELSE LET r1 == energy_density(F.F1)
                     r2 == energy_density(F.F2)
                 IN  IF ~r1.ok \/ ~r2.ok THEN Panic
                     ELSE Ok(CustomMixed_energy_density(F.C,
                                 Into_BTU(Output(F.F1), r1.v),
                                 Into_BTU(Output(F.F2), r2.v)))

\* the fuel's density in BTU
density_BTU(F) == Into_BTU(Output(F), energy_density(F).v)

(***************************************************************************)
(* Containers and providers.                                               *)
(***************************************************************************)
FuelContainer_new(F, amount) == [fuel |-> F, amount |-> amount]

\* the efficiency-adjusted energy in BTU of a total in BTU
adjusted_energy(total_energy, e) ==
    LET eff == F32Div(F32FromU8(Min(e, 100)), F32FromU8(100))
    IN  F32ToU32(F32RoundHalfAway(F32Mul(F32FromU32(total_energy), eff)))

provide_energy_with_efficiency(f, e) ==
    LET density == energy_density(f.fuel)
    IN  IF ~density.ok THEN Panic
        ELSE LET total_energy ==
                     MulU32(Into_BTU(Output(f.fuel), density.v), f.amount)
             IN  IF ~total_energy.ok THEN Panic
                 ELSE From_BTU(Output(f.fuel),
                               adjusted_energy(total_energy.v, e))

provide_energy_ideal(f) == provide_energy_with_efficiency(f, 100)

\* InternalCombustion::new
InternalCombustion_new(e) == [efficiency |-> Min(e, 100), call_count |-> 0]

\* decays as it would without `*current_count >= DECAY`: the first call decays
decays_on_first_call(current_count, current_efficiency, D) ==
    /\ current_count % D = 0
    /\ current_efficiency > 1

\* decays as it would without `*current_efficiency > 1`
decays_below_one(current_count, current_efficiency, D) ==
    /\ current_count % D = 0
    /\ current_count >= D

\* the condition under which InternalCombustion::provide_energy decays
decays(current_count, current_efficiency, D) ==
    /\ current_count % D = 0
    /\ current_efficiency > 1
    /\ current_count >= D

(***************************************************************************)
(* The employee builder.  An Option is a record with `some`, and `v` when  *)
(* it holds a value.                                                       *)
(***************************************************************************)
None == [some |-> FALSE]

Some(x) == [some |-> TRUE, v |-> x]

\* Err(()) of Result<Employee, ()>
Err == [ok |-> FALSE, v |-> <<>>]

Employee(name, uid, experience, wage) ==
    [name |-> name, uid |-> uid, experience |-> experience, wage |-> wage]

EmployeeBuilder_default ==
    [name |-> None, uid |-> None, wage |-> U32(0), experience |-> U32(0)]

EmployeeBuilder_name(self, name) == [self EXCEPT !.name = Some(name)]

EmployeeBuilder_uid(self, uid) == [self EXCEPT !.uid = Some(uid)]

EmployeeBuilder_experience(self, experience) ==
    [self EXCEPT !.experience = experience]

EmployeeBuilder_wage(self, wage) == [self EXCEPT !.wage = wage]

\* a build that asks for the name only
EmployeeBuilder_build_uid_optional(self) ==
    IF self.name.some
    THEN Ok(Employee(self.name.v,
                     IF self.uid.some THEN self.uid.v ELSE U32(0),
                     self.experience, self.wage))
    ELSE Err

EmployeeBuilder_build(self) ==
    IF self.name.some /\ self.uid.some
    THEN Ok(Employee(self.name.v, self.uid.v, self.experience, self.wage))
    ELSE Err

(***************************************************************************)
(* Bounds and inputs.                                                      *)
(***************************************************************************)
MaxDecay == 3

MaxCalls == 7

MaxAmount == 10

MaxUnit == 12

MaxC == 101

\* the setter calls made on one builder
MaxSets == 4

\* the calls of provided methods made on one engine
MaxOthers == 2

NoCall == [op |-> "none"]

\* amounts of fuel: the small ones, and the ones at which the arithmetic of
\* the providers leaves the range it is exact in
Amounts ==
    {U32(n) : n \in 0..MaxAmount}
        \cup {U32(40710), U32(40711), U32(223697), U32(42949673), U32Max}

EngineAmounts == {U32(0), U32(10), U32(40711)}

NaturalFuels == {Diesel, LithiumBattery, Uranium}

InnerFuels ==
    NaturalFuels
        \cup {Mixed(F1, F2) : F1, F2 \in NaturalFuels}
        \cup {CustomMixed(C, F1, F2) : C \in {33, MaxC}, F1, F2 \in NaturalFuels}

ProvidedFuels ==
    NaturalFuels
        \cup {Mixed(Diesel, LithiumBattery), Mixed(Uranium, Diesel),
              Mixed(Mixed(Diesel, LithiumBattery), Uranium),
              CustomMixed(33, Diesel, Diesel), CustomMixed(MaxC, Diesel, Diesel)}

UnitInputs ==
    {U32(n) : n \in 0..MaxUnit}
        \cup {U32(250), U32(251), U32(252), U32(1054), U32(1055), U32(1056),
              U32(2109), U32(2110), U32(105500), U32(4071059), U32(4071060),
              U32(17111423), U32(17111424), U32(2147483647), <<32768, 0>>,
              U32Max}

(***************************************************************************)
(* The decaying engine: one InternalCombustion<DECAY> and the calls made   *)
(* on it.                                                                  *)
(***************************************************************************)
EngineIdle ==
    /\ DECAY = 1
    /\ init_efficiency = 0
    /\ efficiency = 0
    /\ call_count = 0
    /\ used = <<>>
    /\ aborted = FALSE
    /\ others = <<>>

\* no EmployeeBuilder is in use
BuilderIdle ==
    /\ builder = EmployeeBuilder_default
    /\ sets = <<>>

Init ==
    /\ overflow_checks \in BOOLEAN
    /\ DECAY \in 0..MaxDecay
    /\ \E e \in 0..255 :
          /\ init_efficiency = e
          /\ efficiency = InternalCombustion_new(e).efficiency
          /\ call_count = InternalCombustion_new(e).call_count
    /\ used = <<>>
    /\ aborted = FALSE
    /\ others = <<>>
    /\ BuilderIdle
    /\ call = NoCall

\* InternalCombustion::provide_energy.  A panic ends the use of the engine;
\* the count stays below MaxCalls, far from where `+= 1` would overflow.
IC_provide_energy(f) ==
    /\ ~aborted
    /\ call_count < MaxCalls
    /\ IF DECAY = 0
       THEN \* `% DECAY` panics before anything is written
            /\ aborted' = TRUE
            /\ call' = [op |-> "provide_energy", f |-> f, e |-> efficiency,
                        out |-> Panic]
            /\ UNCHANGED <<efficiency, call_count, used>>
       ELSE LET current_efficiency ==
                    IF decays(call_count, efficiency, DECAY)
                    THEN efficiency - 1 ELSE efficiency
                out == provide_energy_with_efficiency(f, current_efficiency)
            IN  /\ efficiency' = current_efficiency
                /\ call_count' = call_count + 1
                /\ used' = Append(used, current_efficiency)
                /\ aborted' = ~out.ok
                /\ call' = [op |-> "provide_energy", f |-> f,
                            e |-> current_efficiency, out |-> out]
    /\ UNCHANGED <<overflow_checks, DECAY, init_efficiency, others, builder,
                   sets>>

Next == \E amount \in EngineAmounts :
            IC_provide_energy(FuelContainer_new(Diesel, amount))

Spec == Init /\ [][Next]_vars

(***************************************************************************)
(* The decaying engine with the provided methods of ProvideEnergy called   *)
(* on it between its provide_energy calls.                                 *)
(***************************************************************************)
FrameInitial == {0, 2, 120}

FrameEfficiencies == {0, 50, 150}

InitFrame ==
    /\ Init
    /\ init_efficiency \in FrameInitial

\* a provided method, called on the engine, returns `out`: it takes &self
\* and touches neither RefCell
IC_provided(op, f, e, out) ==
    /\ ~aborted
    /\ Len(others) < MaxOthers
    /\ others' = Append(others, call_count)
    /\ aborted' = ~out.ok
    /\ call' = [op |-> op, f |-> f, e |-> e, out |-> out]
    /\ UNCHANGED <<overflow_checks, DECAY, init_efficiency, efficiency,
                   call_count, used, builder, sets>>

IC_provide_energy_with_efficiency(f, e) ==
    IC_provided("provide_energy_with_efficiency", f, e,
                provide_energy_with_efficiency(f, e))

\* a provide_energy_ideal that counts as a call of the engine
IC_provide_energy_ideal_counting(f) ==
    /\ ~aborted
    /\ Len(others) < MaxOthers
    /\ call_count < MaxCalls
    /\ others' = Append(others, call_count)
    /\ call_count' = call_count + 1
    /\ aborted' = ~provide_energy_ideal(f).ok
    /\ call' = [op |-> "provide_energy_ideal", f |-> f, e |-> 100,
                out |-> provide_energy_ideal(f)]
    /\ UNCHANGED <<overflow_checks, DECAY, init_efficiency, efficiency,
                   used, builder, sets>>

IC_provide_energy_ideal(f) ==
    IC_provided("provide_energy_ideal", f, 100, provide_energy_ideal(f))

NextFrame ==
    \E amount \in EngineAmounts :
        \/ IC_provide_energy(FuelContainer_new(Diesel, amount))
        \/ \E e \in FrameEfficiencies :
               IC_provide_energy_with_efficiency(
                   FuelContainer_new(Diesel, amount), e)
        \/ IC_provide_energy_ideal(FuelContainer_new(Diesel, amount))

SpecFrame == InitFrame /\ [][NextFrame]_vars

(***************************************************************************)
(* The calls of the stateless operations: a call is drawn with its         *)
(* arguments, then made; `out` is what it returned.                        *)
(***************************************************************************)
Returned(c) == "out" \in DOMAIN c

EngineUntouched ==
    UNCHANGED <<overflow_checks, DECAY, init_efficiency, efficiency,
                call_count, used, aborted, others, builder, sets>>

(***************************************************************************)
(* The unit conversions, each applied to a value, alone and there and      *)
(* back.                                                                   *)
(***************************************************************************)
UnitOps ==
    {"Joule->BTU", "BTU->Joule", "Calorie->BTU", "BTU->Calorie",
     "BTU->Joule->BTU", "Joule->BTU->Joule",
     "BTU->Calorie->BTU", "Calorie->BTU->Calorie"}

InitUnits ==
    /\ overflow_checks \in BOOLEAN
    /\ EngineIdle
    /\ BuilderIdle
    /\ call \in {[op |-> o, in |-> x] : o \in UnitOps, x \in UnitInputs}

Convert(op, result) ==
    /\ ~Returned(call)
    /\ call.op = op
    /\ call' = [op |-> op, in |-> call.in, out |-> result]
    /\ EngineUntouched

Joule_into_BTU == Convert("Joule->BTU", Ok(From_Joule_for_BTU(call.in)))

BTU_into_Joule == Convert("BTU->Joule", From_BTU_for_Joule(call.in))

Calorie_into_BTU == Convert("Calorie->BTU", Ok(From_Calorie_for_BTU(call.in)))

BTU_into_Calorie == Convert("BTU->Calorie", From_BTU_for_Calorie(call.in))

\* BTU::from(Joule::from(b))
BTU_Joule_BTU ==
    LET j == From_BTU_for_Joule(call.in)
    IN  Convert("BTU->Joule->BTU",
                IF j.ok THEN Ok(From_Joule_for_BTU(j.v)) ELSE Panic)

\* Joule::from(BTU::from(j))
Joule_BTU_Joule ==
    Convert("Joule->BTU->Joule", From_BTU_for_Joule(From_Joule_for_BTU(call.in)))

\* BTU::from(Calorie::from(b))
BTU_Calorie_BTU ==
    LET c == From_BTU_for_Calorie(call.in)
    IN  Convert("BTU->Calorie->BTU",
                IF c.ok THEN Ok(From_Calorie_for_BTU(c.v)) ELSE Panic)

\* Calorie::from(BTU::from(c))
Calorie_BTU_Calorie ==
    Convert("Calorie->BTU->Calorie",
            From_BTU_for_Calorie(From_Calorie_for_BTU(call.in)))

NextUnits ==
    \/ Joule_into_BTU
    \/ BTU_into_Joule
    \/ Calorie_into_BTU
    \/ BTU_into_Calorie
    \/ BTU_Joule_BTU
    \/ Joule_BTU_Joule
    \/ BTU_Calorie_BTU
    \/ Calorie_BTU_Calorie

SpecUnits == InitUnits /\ [][NextUnits]_vars

(***************************************************************************)
(* The fuels: the density of a natural fuel, of an even blend and of a     *)
(* weighted blend, the blended fuels being natural fuels or blends.        *)
(***************************************************************************)
Fuels ==
    NaturalFuels
        \cup {Mixed(F1, F2) : F1, F2 \in InnerFuels}
        \cup {CustomMixed(C, F1, F2) : C \in 0..MaxC, F1, F2 \in InnerFuels}

InitFuel ==
    /\ overflow_checks \in BOOLEAN
    /\ EngineIdle
    /\ BuilderIdle
    /\ call \in {[op |-> "energy_density", fuel |-> F] : F \in Fuels}

Fuel_energy_density(kinds) ==
    /\ ~Returned(call)
    /\ call.fuel.kind \in kinds
    /\ call' = [op |-> "energy_density", fuel |-> call.fuel,
                out |-> energy_density(call.fuel)]
    /\ EngineUntouched

Natural_energy_density ==
    Fuel_energy_density({"Diesel", "LithiumBattery", "Uranium"})

Mixed_Fuel_energy_density == Fuel_energy_density({"Mixed"})

CustomMixed_Fuel_energy_density == Fuel_energy_density({"CustomMixed"})

NextFuel ==
    \/ Natural_energy_density
    \/ Mixed_Fuel_energy_density
    \/ CustomMixed_Fuel_energy_density

SpecFuel == InitFuel /\ [][NextFuel]_vars

(***************************************************************************)
(* The methods of ProvideEnergy, called on an OmniGenerator, which takes   *)
(* every fuel.                                                             *)
(***************************************************************************)
InitProvide ==
    /\ overflow_checks \in BOOLEAN
    /\ EngineIdle
    /\ BuilderIdle
    /\ \E F \in ProvidedFuels, amount \in Amounts :
          \/ \E EFFICIENCY \in {80, 100} :
                call = [op |-> "provide_energy",
                        f |-> FuelContainer_new(F, amount), e |-> EFFICIENCY]
          \/ \E e \in 0..255 :
                call = [op |-> "provide_energy_with_efficiency",
                        f |-> FuelContainer_new(F, amount), e |-> e]
          \/ call = [op |-> "provide_energy_ideal",
                     f |-> FuelContainer_new(F, amount), e |-> 100]

Provide(op, result) ==
    /\ ~Returned(call)
    /\ call.op = op
    /\ call' = [op |-> op, f |-> call.f, e |-> call.e, out |-> result]
    /\ EngineUntouched

\* OmniGenerator<EFFICIENCY>::provide_energy
Omni_provide_energy ==
    Provide("provide_energy", provide_energy_with_efficiency(call.f, call.e))

Omni_provide_energy_with_efficiency ==
    Provide("provide_energy_with_efficiency",
            provide_energy_with_efficiency(call.f, call.e))

Omni_provide_energy_ideal ==
    Provide("provide_energy_ideal", provide_energy_ideal(call.f))

NextProvide ==
    \/ Omni_provide_energy
    \/ Omni_provide_energy_with_efficiency
    \/ Omni_provide_energy_ideal

SpecProvide == InitProvide /\ [][NextProvide]_vars

(***************************************************************************)
(* One EmployeeBuilder: EmployeeBuilder::default(), then setters in any    *)
(* order, then build, which consumes the builder.                          *)
(***************************************************************************)
Names == {"John", "Jane"}

BuilderValues == {U32(0), U32(42), U32Max}

InitBuilder ==
    /\ overflow_checks \in BOOLEAN
    /\ EngineIdle
    /\ builder = EmployeeBuilder_default
    /\ sets = <<>>
    /\ call = NoCall

\* the builder is still in hand and takes the setter `field` with `value`
Set(field, value, after) ==
    /\ call = NoCall
    /\ Len(sets) < MaxSets
    /\ builder' = after
    /\ sets' = Append(sets, [field |-> field, value |-> value])
    /\ UNCHANGED <<overflow_checks, DECAY, init_efficiency, efficiency,
                   call_count, used, aborted, others, call>>

Builder_name ==
    \E name \in Names : Set("name", name, EmployeeBuilder_name(builder, name))

Builder_uid ==
    \E uid \in BuilderValues :
        Set("uid", uid, EmployeeBuilder_uid(builder, uid))

Builder_experience ==
    \E experience \in BuilderValues :
        Set("experience", experience,
            EmployeeBuilder_experience(builder, experience))

Builder_wage ==
    \E wage \in BuilderValues :
        Set("wage", wage, EmployeeBuilder_wage(builder, wage))

Builder_build ==
    /\ call = NoCall
    /\ call' = [op |-> "build", out |-> EmployeeBuilder_build(builder)]
    /\ EngineUntouched

NextBuilder ==
    \/ Builder_name
    \/ Builder_uid
    \/ Builder_experience
    \/ Builder_wage
    \/ Builder_build

SpecBuilder == InitBuilder /\ [][NextBuilder]_vars

(***************************************************************************)
(* Properties.                                                             *)
(***************************************************************************)
\* the natural number of a u32 below 2^31
Val(x) == x[1] * 65536 + x[2]

\* x - r for a natural r <= x, r < 2^16
SubU32(x, r) ==
    IF x[2] >= r THEN <<x[1], x[2] - r>> ELSE <<x[1] - 1, x[2] + 65536 - r>>

ClampedInitial == Min(init_efficiency, 100)

\* C1, the step: with DECAY >= 1 a provide_energy call first decrements the
\* efficiency when the count before the call is a positive multiple of DECAY
\* and the efficiency is above 1, then increments the count, then returns the
\* energy of the container at the efficiency it has now.
C1_Step ==
    DECAY >= 1 =>
        LET boundary == call_count > 0 /\ call_count % DECAY = 0
            now == IF boundary /\ efficiency > 1
                   THEN efficiency - 1 ELSE efficiency
        IN  /\ efficiency' = now
            /\ call_count' = call_count + 1
            /\ used' = Append(used, now)
            /\ call'.op = "provide_energy"
            /\ call'.e = now
            /\ call'.out = provide_energy_with_efficiency(call'.f, now)

\* C1, the consequence: the first DECAY calls use the clamped initial
\* efficiency, call DECAY + 1 uses one point less (when there is a point to
\* lose), and DECAY = 3, initial 120, 10 of Diesel give 1000, 1000, 1000, 990.
C1_FirstCalls ==
    DECAY >= 1 =>
        /\ \A i \in 1..Len(used) :
              /\ i <= DECAY => used[i] = ClampedInitial
              /\ i = DECAY + 1 =>
                    used[i] = IF ClampedInitial > 1 THEN ClampedInitial - 1
                              ELSE ClampedInitial
        /\ (/\ DECAY = 3
            /\ init_efficiency = 120
            /\ call.op = "provide_energy"
            /\ call.f.amount = U32(10)
            /\ call_count <= 4)
              => /\ call.out.ok
                 /\ From_Joule_for_BTU(call.out.v)
                        = U32(IF call_count <= 3 THEN 1000 ELSE 990)

\* C1: every provide_energy call of a decaying engine with DECAY >= 1 checks
\* for decay, counts the call and produces the energy, in this order, so that
\* call DECAY + 1 is the first to use one point less.
C1_DecayOrder == [][C1_Step]_vars /\ []C1_FirstCalls

\* C1 witness: the fourth call of InternalCombustion::<3>::new(120) on 10 of
\* Diesel has returned 990 BTU at efficiency 99.
C1_Witness ==
    /\ DECAY = 3
    /\ init_efficiency = 120
    /\ call_count = 4
    /\ used = <<100, 100, 100, 99>>
    /\ call.op = "provide_energy"
    /\ call.f.amount = U32(10)
    /\ call.out = Ok(U32(990 * 1055))

\* the efficiency used never rises and falls by at most 1 over DECAY calls in
\* a row
UsedDecays ==
    \A i, j \in 1..Len(used) :
        i <= j => /\ used[j] <= used[i]
                  /\ j - i < DECAY => used[i] - used[j] <= 1

\* C2 as stated: for DECAY >= 1 and every initial efficiency in 0..255 the
\* efficiency used never rises, falls by at most 1 over DECAY calls in a row
\* and is never below 1.
C2_NeverBelowOne ==
    DECAY >= 1 => /\ UsedDecays
                  /\ \A i \in 1..Len(used) : used[i] >= 1

\* C2 amended: for DECAY >= 1 and every initial efficiency in 0..255 the
\* efficiency used never rises, falls by at most 1 over DECAY calls in a row
\* and is never below 1 when the initial efficiency is at least 1; an engine
\* made with efficiency 0 uses 0 in every call.
C2_DecayMonotone ==
    DECAY >= 1 => /\ UsedDecays
                  /\ \A i \in 1..Len(used) : used[i] >= Min(init_efficiency, 1)
                  /\ init_efficiency = 0 => \A i \in 1..Len(used) : used[i] = 0

\* C2 witness: an engine made with efficiency 2 that decays at every call has
\* decayed once, reached 1 and stayed there.
C2_Witness ==
    /\ DECAY = 1
    /\ init_efficiency = 2
    /\ used = <<2, 1, 1, 1>>

\* C10 as stated: provide_energy on a decaying engine returns an energy value
\* and never aborts, for every DECAY, initial efficiency and amount and after
\* any number of calls.
C10_NeverAborts ==
    call.op = "provide_energy" => call.out.ok /\ ~aborted

\* x = y * k for a factor 0 < k < 2^15
IsProduct(x, y, k) == RemU32(x, k) = 0 /\ DivU32(x, k) = y

\* x = floor(y / k) for a factor 0 < k < 2^15
IsQuotient(x, y, k) ==
    /\ ~MulOverflows(x, U32(k))
    /\ WrappingMul(x, U32(k)) = SubU32(y, RemU32(y, k))

\* C8 as stated: each of the four conversions returns a value for every u32
\* and never aborts, natural to common being the truncating division by 1055
\* (251) and common to natural the multiplication by 1055 (251).
C8_ConversionsTotal ==
    Returned(call) =>
        /\ call.op \in {"Joule->BTU", "BTU->Joule", "Calorie->BTU", "BTU->Calorie"}
              => call.out.ok
        /\ call.op = "Joule->BTU" => IsQuotient(call.out.v, call.in, 1055)
        /\ call.op = "Calorie->BTU" => IsQuotient(call.out.v, call.in, 251)
        /\ call.op = "BTU->Joule" => IsProduct(call.out.v, call.in, 1055)
        /\ call.op = "BTU->Calorie" => IsProduct(call.out.v, call.in, 251)

\* C9 as stated: every common-unit value b converted to Joule (Calorie) and
\* back is b, and every Joule value j converted to the common unit and back
\* is j - (j mod 1055), which is j exactly when j is a multiple of 1055
\* (Calorie likewise with 251).
C9_RoundTrips ==
    Returned(call) =>
        /\ call.op \in {"BTU->Joule->BTU", "BTU->Calorie->BTU"}
              => call.out = Ok(call.in)
        /\ call.op = "Joule->BTU->Joule"
              => /\ call.out = Ok(SubU32(call.in, RemU32(call.in, 1055)))
                 /\ call.out.v = call.in <=> RemU32(call.in, 1055) = 0
        /\ call.op = "Calorie->BTU->Calorie"
              => /\ call.out = Ok(SubU32(call.in, RemU32(call.in, 251)))
                 /\ call.out.v = call.in <=> RemU32(call.in, 251) = 0

\* the two blended fuels of the call both have a density
BlendOfFuels(kind) ==
    /\ Returned(call)
    /\ call.op = "energy_density"
    /\ call.fuel.kind = kind
    /\ energy_density(call.fuel.F1).ok
    /\ energy_density(call.fuel.F2).ok

\* C5 as stated: for C in 0..100 and all fuels F1, F2, blends included, the
\* density of CustomMixed<C, F1, F2> is d1 * C/100 + d2 * (100 - C)/100
\* rounded to the nearest integer, d1 and d2 being the densities in BTU.
C5_WeightedBlendRounds ==
    (BlendOfFuels("CustomMixed") /\ call.fuel.C <= 100) =>
        LET d1 == Val(density_BTU(call.fuel.F1))
            d2 == Val(density_BTU(call.fuel.F2))
            C  == call.fuel.C
        IN  call.out = Ok(U32((d1 * C + d2 * (100 - C) + 50) \div 100))

\* C6: for all fuels F1, F2, blends included, the density of
\* CustomMixed<50, F1, F2> is the density of Mixed<F1, F2>.
C6_HalfBlendIsEvenBlend ==
    (/\ Returned(call)
     /\ call.op = "energy_density"
     /\ call.fuel.kind = "CustomMixed"
     /\ call.fuel.C = 50)
        => call.out = energy_density(Mixed(call.fuel.F1, call.fuel.F2))

\* C6 witness: a half-and-half blend of two fuels whose densities sum to an
\* odd number, of which the half is not a whole number.
C6_Witness ==
    /\ BlendOfFuels("CustomMixed")
    /\ call.fuel.C = 50
    /\ call.out.ok
    /\ (Val(density_BTU(call.fuel.F1)) + Val(density_BTU(call.fuel.F2))) % 2 = 1

\* C7: for all fuels F1, F2 the density of Mixed<F1, F2> is
\* floor((d1 + d2) / 2), d1 and d2 being the densities in BTU; it is the
\* density of Mixed<F2, F1>; Diesel and LithiumBattery give 150.
C7_EvenBlendAverage ==
    /\ BlendOfFuels("Mixed") =>
          /\ call.out = Ok(U32((Val(density_BTU(call.fuel.F1))
                                + Val(density_BTU(call.fuel.F2))) \div 2))
          /\ call.out = energy_density(Mixed(call.fuel.F2, call.fuel.F1))
    /\ (Returned(call) /\ call.fuel = Mixed(Diesel, LithiumBattery))
          => call.out = Ok(U32(150))

\* C7 witness: the density of a blend of two fuels of different densities
\* whose sum is odd has been taken.
C7_Witness ==
    /\ BlendOfFuels("Mixed")
    /\ call.out.ok
    /\ density_BTU(call.fuel.F1) # density_BTU(call.fuel.F2)
    /\ (Val(density_BTU(call.fuel.F1)) + Val(density_BTU(call.fuel.F2))) % 2 = 1

\* the call is on a container whose total energy in BTU fits in a u32
TotalFits ==
    /\ Returned(call)
    /\ energy_density(call.f.fuel).ok
    /\ ~MulOverflows(density_BTU(call.f.fuel), call.f.amount)

\* density * amount * percent / 100 rounded to the nearest integer, for a
\* product density * amount that fits in a u32 and a percent of at most 100
RoundedShare(density, amount, percent) ==
    LET total == WrappingMul(density, amount)
        whole == WrappingMul(DivU32(total, 100), U32(percent))
        part  == (RemU32(total, 100) * percent + 50) \div 100
    IN  AddU32(whole, U32(part))

\* C3 as stated: provide_energy_with_efficiency(Container<F>(n), p) is
\* density_BTU(F) * n * min(p, 100) / 100 rounded to the nearest integer and
\* converted to F's unit, for every fuel F, amount n and percent p in 0..255,
\* so that a percent above 100 gives what 100 gives.
C3_EfficiencyRounds ==
    (TotalFits /\ call.op = "provide_energy_with_efficiency") =>
        /\ call.out = From_BTU(Output(call.f.fuel),
                               RoundedShare(density_BTU(call.f.fuel),
                                            call.f.amount, Min(call.e, 100)))
        /\ call.e > 100 => call.out = provide_energy_with_efficiency(call.f, 100)

\* the number of BTU in one of the unit
UnitFactor(unit) ==
    CASE unit = "Joule" -> 1055
      [] unit = "Calorie" -> 251
      [] unit = "BTU" -> 1

\* C4 as stated: provide_energy_ideal(Container<F>(n)) converted to BTU is
\* density_BTU(F) * n, for every fuel F, blends included, and every amount n
\* (checked where that energy is a u32 in F's unit).
C4_IdealIsDensityTimesAmount ==
    (/\ TotalFits
     /\ call.op = "provide_energy_ideal"
     /\ ~MulOverflows(WrappingMul(density_BTU(call.f.fuel), call.f.amount),
                      U32(UnitFactor(Output(call.f.fuel)))))
        => /\ call.out.ok
           /\ Into_BTU(Output(call.f.fuel), call.out.v)
                  = WrappingMul(density_BTU(call.f.fuel), call.f.amount)

\* the setter `field` was called
WasSet(field) == \E i \in 1..Len(sets) : sets[i].field = field

\* the value of the last call of the setter `field`
LastSet(field) ==
    LET last == CHOOSE i \in 1..Len(sets) :
                    /\ sets[i].field = field
                    /\ \A j \in (i + 1)..Len(sets) : sets[j].field # field
    IN  sets[last].value

LastSetOrZero(field) == IF WasSet(field) THEN LastSet(field) ELSE U32(0)

\* C11: build returns Err(()) when the name or the uid was never set, and
\* otherwise Ok with the employee whose name, uid, experience and wage are
\* the last values set, experience and wage being 0 when never set
C11_BuildLastValues ==
    (call.op = "build") =>
        IF WasSet("name") /\ WasSet("uid")
        THEN /\ call.out.ok
             /\ call.out.v.name = LastSet("name")
             /\ call.out.v.uid = LastSet("uid")
             /\ call.out.v.experience = LastSetOrZero("experience")
             /\ call.out.v.wage = LastSetOrZero("wage")
        ELSE call.out = Err

\* a name set twice, a uid and a wage, no experience: the build succeeds
\* with the second name
C11_Witness ==
    /\ call.op = "build"
    /\ sets = << [field |-> "name", value |-> "John"],
                 [field |-> "uid", value |-> U32(42)],
                 [field |-> "name", value |-> "Jane"],
                 [field |-> "wage", value |-> U32Max] >>
    /\ call.out = Ok(Employee("Jane", U32(42), U32(0), U32Max))

\* the engine after n calls of provide_energy and no other call, DECAY > 0
RECURSIVE PlainEngine(_)
PlainEngine(n) ==
    IF n = 0
    THEN [efficiency |-> InternalCombustion_new(init_efficiency).efficiency,
          used |-> <<>>]
    ELSE LET before == PlainEngine(n - 1)
             current_efficiency ==
                 IF decays(n - 1, before.efficiency, DECAY)
                 THEN before.efficiency - 1 ELSE before.efficiency
         IN  [efficiency |-> current_efficiency,
              used |-> Append(before.used, current_efficiency)]

\* a call of a provided method leaves the count and the efficiency alone
C12_Step ==
    (others' # others) =>
        /\ call_count' = call_count
        /\ efficiency' = efficiency

\* the engine is where its provide_energy calls alone would have brought
\* it, and a provide_energy call returns what it would have returned
C12_SameOutputs ==
    IF DECAY = 0
    THEN /\ call_count = 0
         /\ efficiency = PlainEngine(0).efficiency
         /\ (call.op = "provide_energy") => call.out = Panic
    ELSE /\ call_count = Len(used)
         /\ efficiency = PlainEngine(call_count).efficiency
         /\ used = PlainEngine(call_count).used
         /\ (call.op = "provide_energy") =>
                call.out = provide_energy_with_efficiency(
                               call.f, PlainEngine(call_count).efficiency)

\* C12: on a decaying engine only provide_energy changes the state: calls of
\* provide_energy_with_efficiency and provide_energy_ideal leave the call
\* count and the current efficiency unchanged, so the provide_energy calls
\* return the same outputs however the other calls are interleaved with them
C12_ProvidedMethodsFrame == [][C12_Step]_vars /\ []C12_SameOutputs

\* InternalCombustion<3> from 120: a provided call after the first
\* provide_energy and one after the third, and the fourth still runs at 99
C12_Witness ==
    /\ DECAY = 3
    /\ init_efficiency = 120
    /\ others = <<1, 3>>
    /\ used = <<100, 100, 100, 99>>
    /\ call.op = "provide_energy"
    /\ call.f = FuelContainer_new(Diesel, U32(10))
    /\ call.out = Ok(U32(1044450))


==========================================================================
